---- MODULE Spec2Model ----
(***************************************************************************)
(* Agglomerative hierarchical clustering (hclust): clusterData with its    *)
(* metric library, the progress reporter, the within-cluster variance      *)
(* helper and the elbow selector.                                          *)
(*                                                                         *)
(* JavaScript numbers are modelled as rationals [n, d] in lowest terms,    *)
(* with d = 0 for the non-finite values: NaN = 0/0, Infinity = 1/0 and     *)
(* -Infinity = -1/0.  The metric library and findElbowPoint are computed   *)
(* in binary floating point: every operation is rounded to MantissaBits    *)
(* significant bits, round to nearest, ties to even, as IEEE 754 does with *)
(* 53 bits.  averageDistance, the variance helpers and the progress        *)
(* fractions are computed in exact rationals.  The optional `key`          *)
(* extraction is left at its default (no key).                             *)
(***************************************************************************)
EXTENDS Integers, Sequences, FiniteSets, TLC

\* ------------------------------------------------------------- bounds
\* largest number of records handed to clusterData
MaxN == 4
\* largest number of variances handed to findElbowPoint
MaxPoints == 5
\* significand width of the modelled floating point numbers
MantissaBits == 7

\* ------------------------------------------------------------ numbers
NaN == [n |-> 0, d |-> 0]
Infinity == [n |-> 1, d |-> 0]

AbsInt(k) == IF k < 0 THEN -k ELSE k

SignInt(k) == IF k < 0 THEN -1 ELSE IF k = 0 THEN 0 ELSE 1

RECURSIVE GCD(_, _)
GCD(a, b) == IF b = 0 THEN a ELSE GCD(b, a % b)

RECURSIVE Pow2(_)
Pow2(k) == IF k = 0 THEN 1 ELSE 2 * Pow2(k - 1)

\* the rational p/q (q > 0) in lowest terms
Rat(p, q) ==
  LET g == GCD(AbsInt(p), q)
  IN  [n |-> SignInt(p) * (AbsInt(p) \div g), d |-> q \div g]

Num(k) == [n |-> k, d |-> 1]

IsNaN(x) == x.d = 0 /\ x.n = 0

IsFinite(x) == x.d > 0

\* x + y
Add(x, y) ==
  IF IsFinite(x) /\ IsFinite(y)
  THEN LET g == GCD(x.d, y.d)
       IN  Rat(x.n * (y.d \div g) + y.n * (x.d \div g), (x.d \div g) * y.d)
  ELSE IF IsNaN(x) \/ IsNaN(y) THEN NaN
  ELSE IF ~IsFinite(x) /\ ~IsFinite(y) /\ x.n # y.n THEN NaN
  ELSE IF IsFinite(x) THEN y ELSE x

Neg(x) == [n |-> -x.n, d |-> x.d]

\* x - y
Sub(x, y) == Add(x, Neg(y))

\* x * y
Mul(x, y) ==
  IF IsFinite(x) /\ IsFinite(y)
  THEN LET g1 == GCD(AbsInt(x.n), y.d)
           g2 == GCD(AbsInt(y.n), x.d)
       IN  Rat((x.n \div g1) * (y.n \div g2), (x.d \div g2) * (y.d \div g1))
  ELSE IF IsNaN(x) \/ IsNaN(y) \/ x.n = 0 \/ y.n = 0 THEN NaN
  ELSE [n |-> SignInt(x.n) * SignInt(y.n), d |-> 0]

\* x / y, with JavaScript's results for a zero or non-finite operand
Div(x, y) ==
  IF IsNaN(x) \/ IsNaN(y) THEN NaN
  ELSE IF ~IsFinite(y) THEN (IF IsFinite(x) THEN Num(0) ELSE NaN)
  ELSE IF y.n = 0
       THEN (IF x.n = 0 THEN NaN ELSE [n |-> SignInt(x.n), d |-> 0])
  ELSE IF ~IsFinite(x) THEN [n |-> SignInt(x.n) * SignInt(y.n), d |-> 0]
  ELSE Mul(x, [n |-> SignInt(y.n) * y.d, d |-> AbsInt(y.n)])

\* x < y: false whenever an operand is NaN
Less(x, y) ==
  IF IsNaN(x) \/ IsNaN(y) THEN FALSE
  ELSE IF IsFinite(x) /\ IsFinite(y)
       THEN LET g == GCD(x.d, y.d)
            IN  x.n * (y.d \div g) < y.n * (x.d \div g)
  ELSE IF ~IsFinite(x) /\ ~IsFinite(y) THEN x.n < y.n
  ELSE IF IsFinite(x) THEN y.n > 0 ELSE x.n < 0

\* x > y
Greater(x, y) == Less(y, x)

\* x <= y
LessEq(x, y) == ~IsNaN(x) /\ ~IsNaN(y) /\ ~Less(y, x)

\* Math.abs
Abs(x) == [n |-> AbsInt(x.n), d |-> x.d]

\* round half to even of the positive rational p/q
RoundHalfEven(p, q) ==
  LET m == p \div q
      r == p % q
  IN  IF 2 * r > q \/ (2 * r = q /\ m % 2 = 1) THEN m + 1 ELSE m

\* the exponent e with 2^(MantissaBits-1) <= (p/q) / 2^e < 2^MantissaBits,
\* searched from e upwards and downwards
RECURSIVE Exponent(_, _, _)
Exponent(p, q, e) ==
  IF e >= 0
  THEN IF p >= q * Pow2(e) * Pow2(MantissaBits) THEN Exponent(p, q, e + 1)
       ELSE IF e > 0 \/ p >= q * Pow2(MantissaBits - 1) THEN e
       ELSE Exponent(p, q, e - 1)
  ELSE IF p * Pow2(-e) >= q * Pow2(MantissaBits - 1) THEN e
       ELSE Exponent(p, q, e - 1)

\* m * 2^e as a rational
Scale2(m, e) == IF e >= 0 THEN Num(m * Pow2(e)) ELSE Rat(m, Pow2(-e))

\* the floating point number nearest to x (ties to even)
Fl(x) ==
  IF ~IsFinite(x) \/ x.n = 0 THEN x
  ELSE LET p == AbsInt(x.n)
           e == Exponent(p, x.d, 0)
           m == IF e >= 0 THEN RoundHalfEven(p, x.d * Pow2(e))
                          ELSE RoundHalfEven(p * Pow2(-e), x.d)
           r == Scale2(m, e)
       IN  IF x.n < 0 THEN Neg(r) ELSE r

\* floor of the square root of the natural number k
RECURSIVE ISqrtFrom(_, _)
ISqrtFrom(k, r) == IF (r + 1) * (r + 1) > k THEN r ELSE ISqrtFrom(k, r + 1)

\* the exponent e with 2^(MantissaBits-1) <= sqrt(p/q) / 2^e < 2^MantissaBits
RECURSIVE SqrtExponent(_, _, _)
SqrtExponent(p, q, e) ==
  IF e >= 0
  THEN IF p >= q * Pow2(2 * e) * Pow2(2 * MantissaBits)
       THEN SqrtExponent(p, q, e + 1)
       ELSE IF e > 0 \/ p >= q * Pow2(2 * MantissaBits - 2) THEN e
       ELSE SqrtExponent(p, q, e - 1)
  ELSE IF p * Pow2(-2 * e) >= q * Pow2(2 * MantissaBits - 2) THEN e
       ELSE SqrtExponent(p, q, e - 1)

\* Math.sqrt: the floating point number nearest to the square root of x
Sqrt(x) ==
  IF IsNaN(x) \/ x.n < 0 THEN NaN
  ELSE IF ~IsFinite(x) \/ x.n = 0 THEN x
  ELSE LET e == SqrtExponent(x.n, x.d, 0)
           \* a = x / 4^e = p/q, so that sqrt(a) lies in [2^(P-1), 2^P)
           p == IF e >= 0 THEN x.n ELSE x.n * Pow2(-2 * e)
           q == IF e >= 0 THEN x.d * Pow2(2 * e) ELSE x.d
           m == ISqrtFrom(p \div q, Pow2(MantissaBits - 1) - 1)
           \* a against (m + 1/2)^2 = (2m+1)^2 / 4
           h == (2 * m + 1) * (2 * m + 1) * q
           up == 4 * p > h \/ (4 * p = h /\ m % 2 = 1)
       IN  Scale2(IF up THEN m + 1 ELSE m, e)

\* ----------------------------------------------------- metric library
\* the records clusterData may be given: vectors of dimension 2
Points == {<<0, 0>>, <<0, 1>>, <<5, 5>>, <<5, 6>>}

MinInt(a, b) == IF a < b THEN a ELSE b

MaxInt(a, b) == IF a > b THEN a ELSE b

\* product += vecA[i] * vecB[i], for i below vecA.length
RECURSIVE dotProductFrom(_, _, _, _)
dotProductFrom(vecA, vecB, i, product) ==
  IF i > Len(vecA) THEN product
  ELSE dotProductFrom(vecA, vecB, i + 1,
         Fl(Add(product, Fl(Mul(vecA[i], vecB[i])))))

dotProduct(vecA, vecB) == dotProductFrom(vecA, vecB, 1, Num(0))

norm(vec) == Sqrt(dotProductFrom(vec, vec, 1, Num(0)))

cosineSimilarity(vecA, vecB) ==
  Fl(Div(dotProduct(vecA, vecB), Fl(Mul(norm(vecA), norm(vecB)))))

\* sum += (a[index] - b[index]) * (a[index] - b[index]), for index below size
RECURSIVE SquaredDifferences(_, _, _, _, _)
SquaredDifferences(a, b, size, index, sum) ==
  IF index > size THEN sum
  ELSE LET diff == Fl(Sub(a[index], b[index]))
       IN  SquaredDifferences(a, b, size, index + 1,
             Fl(Add(sum, Fl(Mul(diff, diff)))))

euclideanDistance(a, b) ==
  Sqrt(SquaredDifferences(a, b, MinInt(Len(a), Len(b)), 1, Num(0)))

\* a record as a vector of numbers
Vector(point) == [k \in 1..Len(point) |-> Num(point[k])]

\* the pluggable `distance` argument of clusterData
Metrics == {"cosineSimilarity", "euclideanDistance"}

Metric(name, a, b) ==
  IF name = "cosineSimilarity" THEN cosineSimilarity(Vector(a), Vector(b))
  ELSE euclideanDistance(Vector(a), Vector(b))

\* distances[a][b] for the 0-based record indexes a and b
Cell(distances, a, b) == distances[a + 1][b + 1]

\* distance += distances[a][b] over setA x setB, left to right
RECURSIVE SumDistances(_, _, _, _, _)
SumDistances(setA, setB, distances, k, distance) ==
  IF k >= Len(setA) * Len(setB) THEN distance
  ELSE SumDistances(setA, setB, distances, k + 1,
         Add(distance, Cell(distances, setA[(k \div Len(setB)) + 1],
                                       setB[(k % Len(setB)) + 1])))

\* averageDistance with setA.length written where setB.length belongs
averageDistanceBySetATwice(setA, setB, distances) ==
  Div(Div(SumDistances(setA, setB, distances, 0, Num(0)), Num(Len(setA))),
      Num(Len(setA)))

averageDistance(setA, setB, distances) ==
  Div(Div(SumDistances(setA, setB, distances, 0, Num(0)), Num(Len(setA))),
      Num(Len(setB)))

\* the `linkage` argument of clusterData, left at its default
linkage(setA, setB, distances) == averageDistance(setA, setB, distances)

\* ------------------------------------------------------ progress reporter
\* the value updateProgress hands to onProgress
ProgressValue(stepNumber, stepProgress) ==
  Add(Div(Num(stepNumber), Num(2)), Div(stepProgress, Num(2)))

\* the calls made to onProgress so far, after one more call of updateProgress
updateProgress(calls, stepNumber, stepProgress, isFunction) ==
  IF ~isFunction THEN calls
  ELSE Append(calls, ProgressValue(stepNumber, stepProgress))

\* ------------------------------------------------------------- clusterData
VARIABLES
  pc,              \* the position in clusterData, its caller or findElbowPoint
  data,            \* the records
  distance,        \* the name of the metric passed as `distance`
  onProgress,      \* TRUE when onProgress is a function
  distances,       \* the rows of the distance matrix built so far
  clusters,        \* the live working collection
  clustersGivenK,  \* the tree slices pushed so far; the table once assembled
  iteration,       \* the merge loop's counter
  nearestDistance, \* the smallest linkage value found by the last scan
  nearestRow,      \* its row
  nearestCol,      \* its column
  progress,        \* the values onProgress was called with, in order
  result,          \* <<>> until clusterData returns, then <<the object>>
  varianceK,       \* the K of the last calculateWithinClusterVariance call
  variance,        \* what that call returned
  variances,       \* findElbowPoint's argument
  i,               \* findElbowPoint's loop counter
  maxDistance,     \* findElbowPoint's largest distance so far
  elbowPoint       \* findElbowPoint's candidate, and its result

clusterVars == <<data, distance, onProgress, distances, clusters,
                 clustersGivenK, iteration, nearestDistance, nearestRow,
                 nearestCol, progress, result, varianceK, variance>>

elbowVars == <<variances, i, maxDistance, elbowPoint>>

vars == <<pc, clusterVars, elbowVars>>

N == Len(data)

\* all sequences over S of length at most n
RECURSIVE SeqsUpTo(_, _)
SeqsUpTo(S, n) ==
  IF n = 0 THEN {<<>>}
  ELSE LET shorter == SeqsUpTo(S, n - 1)
       IN  shorter \cup {Append(s, x) : s \in {t \in shorter : Len(t) = n - 1}, x \in S}

\* what calculateWithinClusterVariance returns: null, or a number
Null == [null |-> TRUE, value |-> Num(0)]

Number(x) == [null |-> FALSE, value |-> x]

ElbowIdle ==
  /\ variances = <<>>
  /\ i = 0
  /\ maxDistance = Num(0)
  /\ elbowPoint = 0

Init ==
  /\ pc = "distances"
  /\ data \in SeqsUpTo(Points, MaxN)
  /\ distance \in Metrics
  /\ onProgress \in BOOLEAN
  /\ distances = <<>>
  /\ clusters = <<>>
  /\ clustersGivenK = <<>>
  /\ iteration = 0
  /\ nearestDistance = Infinity
  /\ nearestRow = 0
  /\ nearestCol = 0
  /\ progress = <<>>
  /\ result = <<>>
  /\ varianceK = 0
  /\ variance = Null
  /\ ElbowIdle

\* one callback of the outer data.map: report progress, build one row
ComputeRow ==
  /\ pc = "distances"
  /\ Len(distances) < N
  /\ LET index == Len(distances)
     IN  /\ progress' = updateProgress(progress, 0,
                          Div(Num(index), Num(N - 1)), onProgress)
         /\ distances' = Append(distances,
              [j \in 1..N |-> Metric(distance, data[index + 1], data[j])])
  /\ UNCHANGED <<pc, data, distance, onProgress, clusters, clustersGivenK,
                 iteration, nearestDistance, nearestRow, nearestCol, result,
                 varianceK, variance, elbowVars>>

\* a singleton cluster
Singleton(index) == [height |-> Num(0), indexes |-> <<index>>, children |-> <<>>]

\* clusters = data.map(...), clustersGivenK = [], and the loop's first test
InitClusters ==
  /\ pc = "distances"
  /\ Len(distances) = N
  /\ clusters' = [k \in 1..N |-> Singleton(k - 1)]
  /\ clustersGivenK' = <<>>
  /\ iteration' = 0
  /\ pc' = IF 0 < N THEN "loop" ELSE "return"
  /\ UNCHANGED <<data, distance, onProgress, distances, nearestDistance,
                 nearestRow, nearestCol, progress, result, varianceK, variance,
                 elbowVars>>

\* clusters.map((cluster) => cluster.indexes)
Slice(cl) == [k \in 1..Len(cl) |-> cl[k].indexes]

\* distance <= nearestDistance: a later equal value replaces the pair
CloserOrEqual(d, nearest) == LessEq(d, nearest)

\* distance < nearestDistance
Closer(d, nearest) == Less(d, nearest)

\* the upper triangular scan from (row, col) on, in row-major order
RECURSIVE ScanPairs(_, _, _, _, _)
ScanPairs(cl, dist, row, col, best) ==
  IF row >= Len(cl) THEN best
  ELSE IF col >= Len(cl) THEN ScanPairs(cl, dist, row + 1, row + 2, best)
  ELSE LET d == linkage(cl[row + 1].indexes, cl[col + 1].indexes, dist)
       IN  ScanPairs(cl, dist, row, col + 1,
             IF Closer(d, best.nearestDistance)
             THEN [nearestDistance |-> d, nearestRow |-> row, nearestCol |-> col]
             ELSE best)

Scan(cl, dist) ==
  ScanPairs(cl, dist, 0, 1,
    [nearestDistance |-> Infinity, nearestRow |-> 0, nearestCol |-> 0])

\* seq.splice(index, 1) for a 0-based index
Splice(seq, index) ==
  [k \in 1..(Len(seq) - 1) |-> IF k <= index THEN seq[k] ELSE seq[k + 1]]

\* the working collection after merging the pair the scan chose
Merge(cl, nearest) ==
  LET newCluster ==
        [indexes |-> cl[nearest.nearestRow + 1].indexes
                       \o cl[nearest.nearestCol + 1].indexes,
         height |-> nearest.nearestDistance,
         children |-> <<cl[nearest.nearestRow + 1], cl[nearest.nearestCol + 1]>>]
      higher == MaxInt(nearest.nearestRow, nearest.nearestCol)
      lower == MinInt(nearest.nearestRow, nearest.nearestCol)
  IN  Append(Splice(Splice(cl, higher), lower), newCluster)

\* a loop iteration that merges: report, push the slice, scan, merge
MergeIteration ==
  /\ pc = "loop"
  /\ iteration < N - 1
  /\ progress' = updateProgress(progress, 1,
                   Div(Num(iteration + 1), Num(N)), onProgress)
  /\ clustersGivenK' = Append(clustersGivenK, Slice(clusters))
  /\ LET nearest == Scan(clusters, distances)
     IN  /\ nearestDistance' = nearest.nearestDistance
         /\ nearestRow' = nearest.nearestRow
         /\ nearestCol' = nearest.nearestCol
         /\ clusters' = Merge(clusters, nearest)
  /\ iteration' = iteration + 1
  /\ UNCHANGED <<pc, data, distance, onProgress, distances, result, varianceK,
                 variance, elbowVars>>

\* the last iteration: report, push the slice, break
LastIteration ==
  /\ pc = "loop"
  /\ iteration >= N - 1
  /\ progress' = updateProgress(progress, 1,
                   Div(Num(iteration + 1), Num(N)), onProgress)
  /\ clustersGivenK' = Append(clustersGivenK, Slice(clusters))
  /\ pc' = "return"
  /\ UNCHANGED <<data, distance, onProgress, distances, clusters, iteration,
                 nearestDistance, nearestRow, nearestCol, result, varianceK,
                 variance, elbowVars>>

Reverse(seq) == [k \in 1..Len(seq) |-> seq[Len(seq) + 1 - k]]

\* [[], ...clustersGivenK], the reverse() forgotten
AssembleTableUnreversed(slices) == <<<<>>>> \o slices

\* [[], ...clustersGivenK.reverse()]
AssembleTable(slices) == <<<<>>>> \o Reverse(slices)

\* assemble the table and build the returned object; reading
\* clusters[0].indexes of an empty collection throws a TypeError
Return ==
  /\ pc = "return"
  /\ clustersGivenK' = AssembleTable(clustersGivenK)
  /\ IF Len(clusters) = 0
     THEN /\ pc' = "TypeError"
          /\ result' = result
     ELSE /\ pc' = "done"
          /\ result' = <<[clusters |-> clusters[1],
                          distances |-> distances,
                          order |-> clusters[1].indexes,
                          clustersGivenK |-> clustersGivenK']>>
  /\ UNCHANGED <<data, distance, onProgress, distances, clusters, iteration,
                 nearestDistance, nearestRow, nearestCol, progress, varianceK,
                 variance, elbowVars>>

\* --------------------------------------------------- within-cluster variance
calculateDistance(point1, point2, dist) == Cell(dist, point1, point2)

\* the sum over the pairs (a, b), a < b, of the cluster, from (a, b) on
RECURSIVE SumPairs(_, _, _, _, _)
SumPairs(cluster, dist, a, b, sumOfDistances) ==
  IF a > Len(cluster) THEN sumOfDistances
  ELSE IF b > Len(cluster) THEN SumPairs(cluster, dist, a + 1, a + 2, sumOfDistances)
  ELSE SumPairs(cluster, dist, a, b + 1,
         Add(sumOfDistances, calculateDistance(cluster[a], cluster[b], dist)))

calculateClusterVariance(cluster, dist) ==
  IF Len(cluster) <= 1 THEN Num(0)
  ELSE Div(SumPairs(cluster, dist, 1, 2, Num(0)),
           Num((Len(cluster) * (Len(cluster) - 1)) \div 2))

RECURSIVE TotalVariance(_, _, _, _)
TotalVariance(clustersAtK, dist, k, totalVariance) ==
  IF k > Len(clustersAtK) THEN totalVariance
  ELSE TotalVariance(clustersAtK, dist, k + 1,
         Add(totalVariance, calculateClusterVariance(clustersAtK[k], dist)))

\* calculateWithinClusterVariance rejecting K = N as well
calculateWithinClusterVarianceBelowN(table, dist, K) ==
  IF K <= 0 \/ K >= Len(table) - 1 THEN Null
  ELSE Number(TotalVariance(table[K + 1], dist, 1, Num(0)))

calculateWithinClusterVariance(table, dist, K) ==
  IF K <= 0 \/ K >= Len(table) THEN Null
  ELSE Number(TotalVariance(table[K + 1], dist, 1, Num(0)))

\* a caller applies calculateWithinClusterVariance to what clusterData returned
CalculateVariance ==
  /\ pc = "done"
  /\ \E K \in -1..(N + 2) :
       /\ varianceK' = K
       /\ variance' = calculateWithinClusterVariance(
                        result[1].clustersGivenK, result[1].distances, K)
  /\ pc' = "variance"
  /\ UNCHANGED <<data, distance, onProgress, distances, clusters,
                 clustersGivenK, iteration, nearestDistance, nearestRow,
                 nearestCol, progress, result, elbowVars>>

Next ==
  \/ ComputeRow
  \/ InitClusters
  \/ MergeIteration
  \/ LastIteration
  \/ Return
  \/ CalculateVariance

Spec == Init /\ [][Next]_vars

\* ---------------------------------------------------------- elbow selector
\* the perpendicular distance findElbowPoint computes for the point
\* (k, variances[k-1]), every operation rounded
ElbowDistance(vs, k) ==
  LET nPoints == Len(vs)
      firstPoint == <<Num(1), vs[1]>>
      lastPoint == <<Num(nPoints), vs[nPoints]>>
      currentPoint == <<Num(k), vs[k]>>
      t1 == Fl(Mul(Fl(Sub(lastPoint[2], firstPoint[2])), currentPoint[1]))
      t2 == Fl(Mul(Fl(Sub(lastPoint[1], firstPoint[1])), currentPoint[2]))
      t3 == Fl(Add(Fl(Sub(t1, t2)), Fl(Mul(lastPoint[1], firstPoint[2]))))
      t4 == Fl(Sub(t3, Fl(Mul(lastPoint[2], firstPoint[1]))))
  IN  Fl(Div(Abs(t4), euclideanDistance(firstPoint, lastPoint)))

\* the number literals a caller writes, each read as the nearest
\* floating point number
VarianceLiterals == {Rat(10, 1), Rat(8, 1), Rat(7, 1), Rat(69, 10), Rat(68, 10)}

VarianceValues == {Fl(x) : x \in VarianceLiterals}

ClusterIdle ==
  /\ data = <<>>
  /\ distance = "cosineSimilarity"
  /\ onProgress = FALSE
  /\ distances = <<>>
  /\ clusters = <<>>
  /\ clustersGivenK = <<>>
  /\ iteration = 0
  /\ nearestDistance = Infinity
  /\ nearestRow = 0
  /\ nearestCol = 0
  /\ progress = <<>>
  /\ result = <<>>
  /\ varianceK = 0
  /\ variance = Null

InitElbow ==
  /\ pc = "findElbowPoint"
  /\ variances \in SeqsUpTo(VarianceValues, MaxPoints)
  /\ i = 0
  /\ maxDistance = Num(0)
  /\ elbowPoint = 0
  /\ ClusterIdle

\* maxDistance = 0, elbowPoint = 1, i = 2
ElbowEnter ==
  /\ pc = "findElbowPoint"
  /\ maxDistance' = Num(0)
  /\ elbowPoint' = 1
  /\ i' = 2
  /\ pc' = "elbowLoop"
  /\ UNCHANGED <<variances, clusterVars>>

\* one iteration of the loop over i = 2..nPoints
ElbowIterate ==
  /\ pc = "elbowLoop"
  /\ i <= Len(variances)
  /\ LET d == ElbowDistance(variances, i)
     IN  IF Greater(d, maxDistance)
         THEN maxDistance' = d /\ elbowPoint' = i
         ELSE UNCHANGED <<maxDistance, elbowPoint>>
  /\ i' = i + 1
  /\ UNCHANGED <<pc, variances, clusterVars>>

\* return elbowPoint
ElbowReturn ==
  /\ pc = "elbowLoop"
  /\ i > Len(variances)
  /\ pc' = "elbowDone"
  /\ UNCHANGED <<variances, i, maxDistance, elbowPoint, clusterVars>>

NextElbow ==
  \/ ElbowEnter
  \/ ElbowIterate
  \/ ElbowReturn

SpecElbow == InitElbow /\ [][NextElbow]_vars

\* ------------------------------------------------------------------ claims
\* the indexes of all the sets of a slice, concatenated
RECURSIVE Flatten(_)
Flatten(slice) == IF slice = <<>> THEN <<>> ELSE Head(slice) \o Flatten(Tail(slice))

\* every index of 0..n-1 is in exactly one set of the slice, exactly once
IsPartition(slice, n) ==
  LET all == Flatten(slice)
  IN  /\ Len(all) = n
      /\ \A index \in 0..(n - 1) : \E k \in 1..Len(all) : all[k] = index

\* the number of leaves and of internal nodes of the tree below a cluster
RECURSIVE Leaves(_)
Leaves(c) ==
  IF c.children = <<>> THEN 1 ELSE Leaves(c.children[1]) + Leaves(c.children[2])

RECURSIVE InternalNodes(_)
InternalNodes(c) ==
  IF c.children = <<>> THEN 0
  ELSE 1 + InternalNodes(c.children[1]) + InternalNodes(c.children[2])

\* the merged clusters of the tree below a cluster
RECURSIVE MergedNodes(_)
MergedNodes(c) ==
  IF c.children = <<>> THEN {}
  ELSE {c} \cup MergedNodes(c.children[1]) \cup MergedNodes(c.children[2])

LiveMergedNodes == UNION {MergedNodes(clusters[k]) : k \in 1..Len(clusters)}

\* every scan so far found a pair: a scan that finds none leaves
\* nearestDistance at Infinity, which becomes the height of a live cluster
EveryScanFoundAPair == \A c \in LiveMergedNodes : c.height # Infinity

InLoopOrAfter == pc \in {"loop", "return", "done", "variance"}

\* C1: during any clusterData run the live working collection partitions
\* 0..N-1 before and after every merge step, and so does every entry
\* K in 1..N of the returned clustersGivenK.
C1_LiveClustersPartition ==
  /\ InLoopOrAfter => IsPartition(Slice(clusters), N)
  /\ pc = "done" =>
       \A K \in 1..N : IsPartition(result[1].clustersGivenK[K + 1], N)

\* C2: a call with N = 0 records does not end in an error state, it returns
\* an empty result.
C2_EmptyInputReturns == N = 0 => pc # "TypeError"

\* C3: for every N >= 1 the values passed to onProgress are numbers in
\* [0,1] and increase strictly from one call to the next.
C3_ProgressMonotoneInUnitInterval ==
  N >= 1 =>
    /\ \A k \in 1..Len(progress) :
         LessEq(Num(0), progress[k]) /\ LessEq(progress[k], Num(1))
    /\ \A k \in 1..(Len(progress) - 1) : Less(progress[k], progress[k + 1])

\* C7: after exactly N-1 merges one live cluster remains, and it is returned
\* as the root of a binary tree with N leaves and N-1 internal nodes.
C7_RootIsBinaryTreeOfNLeaves ==
  /\ pc = "loop" => Len(clusters) = N - iteration
  /\ pc = "done" =>
       /\ iteration = N - 1
       /\ Len(clusters) = 1
       /\ result[1].clusters = clusters[1]
       /\ Leaves(result[1].clusters) = N
       /\ InternalNodes(result[1].clusters) = N - 1

\* C4 as stated: on the table clusterData returned for N records,
\* calculateWithinClusterVariance returns null exactly for the K outside
\* 1..N-1, K = N included.
C4_NullOutsideOneToNMinusOne ==
  pc = "variance" => (variance.null <=> varianceK \notin 1..(N - 1))

\* C4 amended: it returns null exactly for the integers K <= 0 and K >= N+1;
\* for every K in 1..N it returns a number, which is 0 at K = N.
C4_NullOutsideOneToN ==
  pc = "variance" =>
    /\ variance.null <=> varianceK \notin 1..N
    /\ varianceK = N => variance = Number(Num(0))

C4_VarianceAtAllSingletons ==
  pc = "variance" /\ N >= 2 /\ varianceK = N /\ variance = Number(Num(0))

\* the sets of a slice, each as a set of indexes
SetsOf(slice) ==
  {{slice[k][j] : j \in 1..Len(slice[k])} : k \in 1..Len(slice)}

\* C5: for N >= 1, when every scan found a pair, the returned table has N+1
\* entries, entry 0 is empty and entry K holds exactly K index sets: entry N
\* the N singletons, entry 1 one set of all N indexes; for N = 1 the table
\* is [[], [[0]]] and the root the singleton of index 0 and height 0.
C5_TableEntryKHoldsKSets ==
  pc = "done" /\ EveryScanFoundAPair =>
    LET table == result[1].clustersGivenK
    IN  /\ Len(table) = N + 1
        /\ table[1] = <<>>
        /\ \A K \in 1..N : Len(table[K + 1]) = K
        /\ table[N + 1] = [k \in 1..N |-> <<k - 1>>]
        /\ SetsOf(table[2]) = {0..(N - 1)}
        /\ Len(table[2][1]) = N
        /\ N = 1 => /\ table = << <<>>, << <<0>> >> >>
                    /\ result[1].clusters = Singleton(0)

C5_TableOfThreeOrMore == pc = "done" /\ N >= 3 /\ EveryScanFoundAPair

\* the concrete scenario: records [[0,0],[0,1],[5,5],[5,6]]
Scenario == << <<0, 0>>, <<0, 1>>, <<5, 5>>, <<5, 6>> >>

\* the 1-based position of an index in an order
PositionIn(order, index) == CHOOSE k \in 1..Len(order) : order[k] = index

Adjacent(order, a, b) ==
  PositionIn(order, a) - PositionIn(order, b) \in {-1, 1}

\* C8: on the scenario, with Euclidean distance and average linkage, the
\* first merge is {0,1}, the second {2,3}, the third joins the two pairs;
\* clustersGivenK[2] is {0,1} and {2,3}, and the returned order keeps 0 next
\* to 1 and 2 next to 3.
C8_ScenarioMergesTightPairsFirst ==
  data = Scenario /\ distance = "euclideanDistance" =>
    /\ pc = "loop" /\ iteration = 1 =>
         SetsOf(Slice(clusters)) = {{0, 1}, {2}, {3}}
    /\ pc = "loop" /\ iteration = 2 =>
         SetsOf(Slice(clusters)) = {{0, 1}, {2, 3}}
    /\ pc = "loop" /\ iteration = 3 =>
         SetsOf(Slice(clusters)) = {{0, 1, 2, 3}}
    /\ pc = "done" =>
         /\ SetsOf(result[1].clustersGivenK[3]) = {{0, 1}, {2, 3}}
         /\ Len(result[1].clustersGivenK[3]) = 2
         /\ Len(result[1].order) = 4
         /\ Adjacent(result[1].order, 0, 1)
         /\ Adjacent(result[1].order, 2, 3)

C8_ScenarioReturned ==
  data = Scenario /\ distance = "euclideanDistance" /\ pc = "done"

\* the pairs (row, col), row < col, of a collection of n clusters
PairsOf(n) == {p \in (0..(n - 1)) \X (0..(n - 1)) : p[1] < p[2]}

\* (row, col) comes before (nearestRow, nearestCol) in row-major order
Before(p, row, col) == p[1] < row \/ (p[1] = row /\ p[2] < col)

\* C9: in every merge step the merged pair (row, col), row < col, is the
\* first pair in row-major order whose linkage value is the minimum over
\* the pairs of live clusters, and the new cluster's height is that value.
\* (A pair whose value is NaN compares with nothing and is passed over.)
C9_MergesFirstMinimalPair ==
  pc = "loop" /\ iteration >= 1 =>
    LET pre == clustersGivenK[Len(clustersGivenK)]
        new == clusters[Len(clusters)]
        value(p) == linkage(pre[p[1] + 1], pre[p[2] + 1], distances)
    IN  /\ <<nearestRow, nearestCol>> \in PairsOf(Len(pre))
        /\ value(<<nearestRow, nearestCol>>) = nearestDistance
        /\ \A p \in PairsOf(Len(pre)) :
             /\ ~Less(value(p), nearestDistance)
             /\ Before(p, nearestRow, nearestCol) => value(p) # nearestDistance
        /\ new.height = nearestDistance
        /\ new.indexes = pre[nearestRow + 1] \o pre[nearestCol + 1]

\* the distance matrix is symmetric, finite and non-negative
SymmetricNonNegative ==
  \A a, b \in 1..N :
    /\ IsFinite(distances[a][b])
    /\ distances[a][b].n >= 0
    /\ distances[a][b] = distances[b][a]

\* C10: with averageDistance over a symmetric non-negative matrix, in exact
\* arithmetic, the heights of successive merges are non-decreasing (no
\* merged cluster is lower than the latest merge) and every merged cluster
\* is at least as high as each of its two children.
C10_HeightsNonDecreasing ==
  InLoopOrAfter /\ SymmetricNonNegative =>
    \A c \in LiveMergedNodes :
      /\ LessEq(c.children[1].height, c.height)
      /\ LessEq(c.children[2].height, c.height)
      /\ LessEq(c.height, nearestDistance)

C10_ThreeRisingMerges ==
  /\ pc = "done" /\ N = 4 /\ SymmetricNonNegative
  /\ \E c \in LiveMergedNodes :
       /\ c.children[1].children # <<>>
       /\ Less(c.children[1].height, c.height)
       /\ Less(Num(0), c.children[1].height)

\* twice the area of the triangle (1, vs[1]), (n, vs[n]), (K, vs[K]): the
\* exact perpendicular distance of point K to the line through the first
\* and the last point, times the length of that line
Deviation(vs, K) ==
  LET n == Len(vs)
  IN  Abs(Sub(Mul(Num(K - 1), Sub(vs[n], vs[1])),
              Mul(Sub(vs[K], vs[1]), Num(n - 1))))

\* the smallest K of largest perpendicular distance, 1 when no distance is
\* strictly positive
FarthestPoint(vs) ==
  IF \A K \in 1..Len(vs) : ~Less(Num(0), Deviation(vs, K)) THEN 1
  ELSE CHOOSE K \in 1..Len(vs) :
         /\ \A J \in 1..Len(vs) : LessEq(Deviation(vs, J), Deviation(vs, K))
         /\ \A J \in 1..(K - 1) : Less(Deviation(vs, J), Deviation(vs, K))

\* the example [10, 8, 7, 6.9, 6.8]
ElbowExample ==
  <<Fl(Rat(10, 1)), Fl(Rat(8, 1)), Fl(Rat(7, 1)), Fl(Rat(69, 10)), Fl(Rat(68, 10))>>

\* C6: findElbowPoint returns 1 for fewer than 3 points, where no point has
\* a strictly positive distance; otherwise the smallest K of largest
\* perpendicular distance to the line through the first and last points;
\* and K = 2 or K = 3 for [10, 8, 7, 6.9, 6.8].
C6_ElbowIsFarthestPoint ==
  pc = "elbowDone" =>
    /\ Len(variances) < 3 => elbowPoint = 1
    /\ variances = ElbowExample => elbowPoint \in {2, 3}
    /\ elbowPoint = FarthestPoint(variances)
====
